---- MODULE Spec2Model ----
(***************************************************************************)
(* Booking-conflict resolution and payment reconciliation of the parking   *)
(* service: the Booking rows, the Payment rows, the request handlers that  *)
(* write them (BookingSerializer, BookingViewSet.destroy,                  *)
(* PaymentSerializer, the Payment.mark methods), the webhook application   *)
(* and the periodic expiration sweep.                                      *)
(*                                                                         *)
(* Time is an integer number of units; UnitsPerHour units make one hour.   *)
(* A Booking row is identified by its index in `bookings`, a Payment row   *)
(* by its index in `payments` (rows are never deleted).                    *)
(***************************************************************************)
EXTENDS Integers, Sequences, FiniteSets, TLC

VARIABLES now, bookings, payments, nextRemote, inflight

vars == <<now, bookings, payments, nextRemote, inflight>>

----------------------------------------------------------------------------
(* Bounds of the model *)

MaxTime == 2

MaxBookings == 2

MaxRemote == 2

UnitsPerHour == 2

----------------------------------------------------------------------------
(* Data *)

PENDING == "pending"

CONFIRMED == "confirmed"

ACTIVE == "active"

COMPLETED == "completed"

CANCELLED == "cancelled"

EXPIRED == "expired"

BookingStatuses == {PENDING, CONFIRMED, ACTIVE, COMPLETED, CANCELLED, EXPIRED}

BlockingStatuses == {PENDING, CONFIRMED, ACTIVE}

HOURLY == "hourly"

DAILY == "daily"

MONTHLY == "monthly"

BookingTypes == {HOURLY, DAILY, MONTHLY}

P_CREATED == "created"

P_PENDING == "pending"

P_SUCCEEDED == "succeeded"

P_CANCELLED == "cancelled"

P_FAILED == "failed"

PaymentTerminal == {P_SUCCEEDED, P_CANCELLED, P_FAILED}

WebhookOutcomes == {P_SUCCEEDED, P_FAILED, P_CANCELLED}

\* The parking spots: A and B can be booked, X is switched off.
Spots == {"A", "B", "X"}

spot_is_active(spot) == spot # "X"

\* Price schedule of a spot (ParkingSpot.hourly_price / daily_price / monthly_price).
spot_rate(spot, booking_type) ==
    CASE booking_type = HOURLY  -> (IF spot = "A" THEN 100 ELSE 150)
      [] booking_type = DAILY   -> (IF spot = "A" THEN 1000 ELSE 1200)
      [] booking_type = MONTHLY -> (IF spot = "A" THEN 20000 ELSE 25000)

UnitsPerDay == 24 * UnitsPerHour

UnitsPerMonth == 30 * UnitsPerDay

Times == 0..MaxTime

BookingIds == 1..Len(bookings)

PaymentIds == 1..Len(payments)

----------------------------------------------------------------------------
(* Booking model: parking/models.py *)

\* Smallest n with n * unit >= duration.
CeilDiv(duration, unit) == (duration + unit - 1) \div unit

\* Booking.calculate_price(): whole units of the booking kind, rounded up,
\* times the spot's rate for that kind.
Booking_calculate_price(spot, start_at, end_at, booking_type) ==
    LET duration == end_at - start_at
        unit == CASE booking_type = HOURLY  -> UnitsPerHour
                  [] booking_type = DAILY   -> UnitsPerDay
                  [] booking_type = MONTHLY -> UnitsPerMonth
    IN  CeilDiv(duration, unit) * spot_rate(spot, booking_type)

\* Booking.is_spot_available(spot, start_at, end_at, exclude_booking_id):
\* exclude_booking_id = 0 stands for None.
Booking_is_spot_available(rows, spot, start_at, end_at, exclude_booking_id) ==
    ~ \E i \in 1..Len(rows) :
        /\ i # exclude_booking_id
        /\ rows[i].spot = spot
        /\ rows[i].status \in BlockingStatuses
        /\ rows[i].start_at < end_at
        /\ start_at < rows[i].end_at

\* Booking.has_started
Booking_has_started(b) == now >= b.start_at

\* Booking.mark_paid(payment_id): the first application confirms a PENDING
\* booking and notifies; every other application changes nothing.
Booking_mark_paid(b) ==
    IF b.status = PENDING /\ ~b.is_paid
    THEN [b EXCEPT !.status = CONFIRMED, !.is_paid = TRUE,
                   !.notifications = b.notifications + 1]
    ELSE b

----------------------------------------------------------------------------
(* BookingSerializer: parking/serializers.py *)

\* validate() that passes no exclude_booking_id to is_spot_available.
BookingSerializer_validate_no_exclude(rows, instance_id, spot, start_at, end_at) ==
    IF start_at >= end_at THEN "bad_interval"
    ELSE IF start_at < now THEN "in_the_past"
    ELSE IF ~spot_is_active(spot) THEN "spot_inactive"
    ELSE IF ~Booking_is_spot_available(rows, spot, start_at, end_at, 0)
         THEN "conflict"
    ELSE "ok"

\* validate() without the check of the start against the clock.
BookingSerializer_validate_no_past(rows, instance_id, spot, start_at, end_at) ==
    IF start_at >= end_at THEN "bad_interval"
    ELSE IF ~spot_is_active(spot) THEN "spot_inactive"
    ELSE IF ~Booking_is_spot_available(rows, spot, start_at, end_at, instance_id)
         THEN "conflict"
    ELSE "ok"

\* BookingSerializer.validate(attrs) with self.instance = the booking with id
\* instance_id (0: no instance, a create). "ok" or the reason of the
\* ValidationError.
BookingSerializer_validate(rows, instance_id, spot, start_at, end_at) ==
    IF start_at >= end_at THEN "bad_interval"
    ELSE IF start_at < now THEN "in_the_past"
    ELSE IF ~spot_is_active(spot) THEN "spot_inactive"
    ELSE IF ~Booking_is_spot_available(rows, spot, start_at, end_at, instance_id)
         THEN "conflict"
    ELSE "ok"

\* create() that saves the row without computing its price.
BookingSerializer_create_no_price(spot, start_at, end_at, booking_type) ==
    [spot |-> spot, start_at |-> start_at, end_at |-> end_at,
     booking_type |-> booking_type, total_price |-> 0,
     status |-> PENDING, is_paid |-> FALSE, notifications |-> 0]

\* BookingSerializer.create(validated_data): the row that is saved.
BookingSerializer_create(spot, start_at, end_at, booking_type) ==
    [spot |-> spot, start_at |-> start_at, end_at |-> end_at,
     booking_type |-> booking_type,
     total_price |-> Booking_calculate_price(spot, start_at, end_at, booking_type),
     status |-> PENDING, is_paid |-> FALSE, notifications |-> 0]

\* update() without the test of the instance's status.
BookingSerializer_update_any_status(instance, spot, start_at, end_at, booking_type) ==
    [error |-> "ok",
     row |-> [instance EXCEPT
                !.spot = spot, !.start_at = start_at, !.end_at = end_at,
                !.booking_type = booking_type,
                !.total_price = Booking_calculate_price(spot, start_at,
                                    end_at, booking_type)]]

\* update() that saves the new fields with the old total price.
BookingSerializer_update_keep_price(instance, spot, start_at, end_at, booking_type) ==
    IF instance.status # PENDING
    THEN [error |-> "not_pending", row |-> instance]
    ELSE [error |-> "ok",
          row |-> [instance EXCEPT
                     !.spot = spot, !.start_at = start_at, !.end_at = end_at,
                     !.booking_type = booking_type]]

\* BookingSerializer.update(instance, validated_data): the fields are set on
\* the loaded instance, a non-PENDING instance raises (nothing is saved),
\* otherwise the price is recomputed and the whole instance is saved.
\* error = "ok" and the row to save, or the reason of the raise.
BookingSerializer_update(instance, spot, start_at, end_at, booking_type) ==
    IF instance.status # PENDING
    THEN [error |-> "not_pending", row |-> instance]
    ELSE [error |-> "ok",
          row |-> [instance EXCEPT
                     !.spot = spot, !.start_at = start_at, !.end_at = end_at,
                     !.booking_type = booking_type,
                     !.total_price = Booking_calculate_price(spot, start_at,
                                         end_at, booking_type)]]

\* destroy that does not look at has_started.
BookingViewSet_destroy_no_started(instance) ==
    [error |-> "ok", row |-> [instance EXCEPT !.status = CANCELLED]]

\* destroy that also clears the paid flag.
BookingViewSet_destroy_clears_paid(instance) ==
    IF Booking_has_started(instance)
    THEN [error |-> "already_started", row |-> instance]
    ELSE [error |-> "ok",
          row |-> [instance EXCEPT !.status = CANCELLED, !.is_paid = FALSE]]

\* BookingViewSet.destroy: HTTP 400 when the booking has started, otherwise
\* the status alone is written.
BookingViewSet_destroy(instance) ==
    IF Booking_has_started(instance)
    THEN [error |-> "already_started", row |-> instance]
    ELSE [error |-> "ok", row |-> [instance EXCEPT !.status = CANCELLED]]

----------------------------------------------------------------------------
(* Payment model: payments/models.py *)

\* The Payment rows of a booking (booking.payment, a OneToOneField).
PaymentsOf(rows, booking_id) ==
    {i \in 1..Len(rows) : rows[i].booking = booking_id}

\* Payment._update_status
Payment_update_status(p, status, success, failure) ==
    [p EXCEPT !.status = status, !.success = success, !.failure = failure]

\* mark_succeeded() that writes the payment and leaves the booking alone.
Payment_mark_succeeded_no_mark_paid(p, b) ==
    [payment |-> Payment_update_status(p, P_SUCCEEDED, TRUE, FALSE),
     booking |-> b]

\* mark_succeeded() that confirms the booking and does not write the payment.
Payment_mark_succeeded_no_status(p, b) ==
    [payment |-> p, booking |-> Booking_mark_paid(b)]

\* Payment.mark_succeeded: the payment row and its booking after the call.
Payment_mark_succeeded(p, b) ==
    [payment |-> Payment_update_status(p, P_SUCCEEDED, TRUE, FALSE),
     booking |-> Booking_mark_paid(b)]

\* mark_failed() that also cancels the booking.
Payment_mark_failed_cancels_booking(p, b) ==
    [payment |-> Payment_update_status(p, P_FAILED, FALSE, TRUE),
     booking |-> [b EXCEPT !.status = CANCELLED]]

\* Payment.mark_failed
Payment_mark_failed(p, b) ==
    [payment |-> Payment_update_status(p, P_FAILED, FALSE, TRUE),
     booking |-> b]

\* Payment.mark_cancelled
Payment_mark_cancelled(p, b) ==
    [payment |-> Payment_update_status(p, P_CANCELLED, FALSE, TRUE),
     booking |-> b]

\* save() of a Payment whose booking field is a plain ForeignKey: an unsaved
\* instance is always inserted.
Payment_save_no_unique(rows, pid, row) ==
    IF pid = 0
    THEN [error |-> "ok", rows |-> Append(rows, row)]
    ELSE [error |-> "ok", rows |-> [rows EXCEPT ![pid] = row]]

\* Payment.save() of the instance `row`: pid = 0 is an instance that has no
\* primary key yet, which is inserted unless the unique index of the
\* OneToOneField `booking` refuses it (IntegrityError); an instance loaded
\* from row pid is written back over that row, every field.
Payment_save(rows, pid, row) ==
    IF pid = 0
    THEN IF \E i \in 1..Len(rows) : rows[i].booking = row.booking
         THEN [error |-> "integrity_error", rows |-> rows]
         ELSE [error |-> "ok", rows |-> Append(rows, row)]
    ELSE [error |-> "ok", rows |-> [rows EXCEPT ![pid] = row]]

----------------------------------------------------------------------------
(* PaymentSerializer: payments/serializers.py *)

\* PaymentSerializer.validate(attrs): "ok" or the reason of the error.
PaymentSerializer_validate(b) ==
    IF b.is_paid \/ b.status # PENDING THEN "not_pending"
    ELSE IF b.status \in {CANCELLED, EXPIRED} \/ b.end_at <= now THEN "past"
    ELSE IF b.total_price <= 0 THEN "zero_amount"
    ELSE "ok"

\* create() that always inserts a new Payment row.
PaymentSerializer_create_new_row(rows, booking_id, b, gateway_ok, remote_id) ==
    IF ~gateway_ok
    THEN [error |-> "gateway_error", rows |-> rows]
    ELSE [error |-> "ok",
          rows |-> Append(rows,
                      [booking |-> booking_id, amount |-> b.total_price,
                       status |-> P_PENDING, success |-> FALSE,
                       failure |-> FALSE,
                       provider_payment_id |-> remote_id])]

\* create() that reuses a row without resetting its failure flag.
PaymentSerializer_create_keep_failure(rows, booking_id, b, gateway_ok, remote_id) ==
    LET existing == PaymentsOf(rows, booking_id)
        pid == CHOOSE i \in existing : TRUE
    IN  IF existing # {} /\ rows[pid].status = P_SUCCEEDED
        THEN [error |-> "already_succeeded", rows |-> rows]
        ELSE IF ~gateway_ok
        THEN [error |-> "gateway_error", rows |-> rows]
        ELSE IF existing # {}
        THEN [error |-> "ok",
              rows |-> [rows EXCEPT ![pid] =
                          [@ EXCEPT !.provider_payment_id = remote_id,
                                    !.status = P_PENDING,
                                    !.success = FALSE]]]
        ELSE [error |-> "ok",
              rows |-> Append(rows,
                          [booking |-> booking_id, amount |-> b.total_price,
                           status |-> P_PENDING, success |-> FALSE,
                           failure |-> FALSE,
                           provider_payment_id |-> remote_id])]

\* create() that reuses the existing payment whatever its status.
PaymentSerializer_create_reuse_succeeded(rows, booking_id, b, gateway_ok, remote_id) ==
    LET existing == PaymentsOf(rows, booking_id)
        pid == CHOOSE i \in existing : TRUE
    IN  IF ~gateway_ok
        THEN [error |-> "gateway_error", rows |-> rows]
        ELSE IF existing # {}
        THEN [error |-> "ok",
              rows |-> [rows EXCEPT ![pid] =
                          [@ EXCEPT !.provider_payment_id = remote_id,
                                    !.status = P_PENDING,
                                    !.success = FALSE, !.failure = FALSE]]]
        ELSE [error |-> "ok",
              rows |-> Append(rows,
                          [booking |-> booking_id, amount |-> b.total_price,
                           status |-> P_PENDING, success |-> FALSE,
                           failure |-> FALSE,
                           provider_payment_id |-> remote_id])]

\* create() that saves the payment before it asks the gateway, so that a
\* gateway error leaves a saved CREATED payment behind.
PaymentSerializer_create_save_first(rows, booking_id, b, gateway_ok, remote_id) ==
    LET existing == PaymentsOf(rows, booking_id)
        pid == CHOOSE i \in existing : TRUE
    IN  IF existing # {} /\ rows[pid].status = P_SUCCEEDED
        THEN [error |-> "already_succeeded", rows |-> rows]
        ELSE IF existing # {}
        THEN [error |-> IF gateway_ok THEN "ok" ELSE "gateway_error",
              rows |-> [rows EXCEPT ![pid] =
                          [@ EXCEPT !.provider_payment_id =
                                        IF gateway_ok THEN remote_id ELSE 0,
                                    !.status = IF gateway_ok THEN P_PENDING
                                               ELSE P_CREATED,
                                    !.success = FALSE, !.failure = FALSE]]]
        ELSE [error |-> IF gateway_ok THEN "ok" ELSE "gateway_error",
              rows |-> Append(rows,
                          [booking |-> booking_id, amount |-> b.total_price,
                           status |-> IF gateway_ok THEN P_PENDING ELSE P_CREATED,
                           success |-> FALSE, failure |-> FALSE,
                           provider_payment_id |->
                               IF gateway_ok THEN remote_id ELSE 0])]

\* create() that also sets the amount of a reused payment to the booking's
\* total price.
PaymentSerializer_create_refresh_amount(rows, booking_id, b, gateway_ok, remote_id) ==
    LET existing == PaymentsOf(rows, booking_id)
        pid == CHOOSE i \in existing : TRUE
    IN  IF existing # {} /\ rows[pid].status = P_SUCCEEDED
        THEN [error |-> "already_succeeded", rows |-> rows]
        ELSE IF ~gateway_ok
        THEN [error |-> "gateway_error", rows |-> rows]
        ELSE IF existing # {}
        THEN [error |-> "ok",
              rows |-> [rows EXCEPT ![pid] =
                          [@ EXCEPT !.provider_payment_id = remote_id,
                                    !.amount = b.total_price,
                                    !.status = P_PENDING,
                                    !.success = FALSE, !.failure = FALSE]]]
        ELSE [error |-> "ok",
              rows |-> Append(rows,
                          [booking |-> booking_id, amount |-> b.total_price,
                           status |-> P_PENDING, success |-> FALSE,
                           failure |-> FALSE,
                           provider_payment_id |-> remote_id])]

\* PaymentSerializer.create(validated_data). gateway_ok and remote_id are the
\* outcome of the create_yookassa_payment call as the call site reads it: a
\* (payment_url, provider_payment_id, raw) triple, or an exception. An
\* exception of any kind (a YooKassaError, or the TypeError that the adapter
\* of providers/yookassa.py, whose parameters are (request, payment,
\* return_url), raises on this one-argument call) leaves before payment.save(),
\* so it is the gateway_ok = FALSE case. The result is the Payment table after
\* the call.
PaymentSerializer_create(rows, booking_id, b, gateway_ok, remote_id) ==
    LET existing == PaymentsOf(rows, booking_id)
        pid == CHOOSE i \in existing : TRUE
    IN  IF existing # {} /\ rows[pid].status = P_SUCCEEDED
        THEN [error |-> "already_succeeded", rows |-> rows]
        ELSE IF ~gateway_ok
        THEN [error |-> "gateway_error", rows |-> rows]
        ELSE IF existing # {}
        THEN [error |-> "ok",
              rows |-> [rows EXCEPT ![pid] =
                          [@ EXCEPT !.provider_payment_id = remote_id,
                                    !.status = P_PENDING,
                                    !.success = FALSE, !.failure = FALSE]]]
        ELSE [error |-> "ok",
              rows |-> Append(rows,
                          [booking |-> booking_id, amount |-> b.total_price,
                           status |-> P_PENDING, success |-> FALSE,
                           failure |-> FALSE,
                           provider_payment_id |-> remote_id])]

----------------------------------------------------------------------------
(* Webhook application and the sweeper *)

\* The Payment rows carrying a provider payment id.
PaymentsByRemote(rows, remote_id) ==
    {i \in 1..Len(rows) : rows[i].provider_payment_id = remote_id}

\* apply_webhook() that applies an event with an unknown remote id to the
\* newest payment.
apply_webhook_falls_back(prows, brows, remote_id, outcome) ==
    LET found == PaymentsByRemote(prows, remote_id)
        pid == IF found = {} THEN Len(prows) ELSE CHOOSE i \in found : TRUE
        bid == prows[pid].booking
        r == CASE outcome = P_SUCCEEDED -> Payment_mark_succeeded(prows[pid], brows[bid])
               [] outcome = P_FAILED -> Payment_mark_failed(prows[pid], brows[bid])
               [] outcome = P_CANCELLED -> Payment_mark_cancelled(prows[pid], brows[bid])
    IN  IF pid = 0 \/ prows[pid].status \in PaymentTerminal
        THEN [payments |-> prows, bookings |-> brows]
        ELSE [payments |-> [prows EXCEPT ![pid] = r.payment],
              bookings |-> [brows EXCEPT ![bid] = r.booking]]

\* apply_webhook(event): the payment is looked up by remote id; an unknown id
\* and a payment already in a terminal status are acknowledged without a write.
apply_webhook(prows, brows, remote_id, outcome) ==
    LET found == PaymentsByRemote(prows, remote_id)
        pid == CHOOSE i \in found : TRUE
        bid == prows[pid].booking
        r == CASE outcome = P_SUCCEEDED -> Payment_mark_succeeded(prows[pid], brows[bid])
               [] outcome = P_FAILED -> Payment_mark_failed(prows[pid], brows[bid])
               [] outcome = P_CANCELLED -> Payment_mark_cancelled(prows[pid], brows[bid])
    IN  IF found = {} \/ prows[pid].status \in PaymentTerminal
        THEN [payments |-> prows, bookings |-> brows]
        ELSE [payments |-> [prows EXCEPT ![pid] = r.payment],
              bookings |-> [brows EXCEPT ![bid] = r.booking]]

\* The webhook endpoint: the request is parsed into (remote_id, outcome) and
\* applied, and the provider gets its acknowledgement. `authentic` tells
\* whether the request carries the provider's signature; nothing reads
\* YOOKASSA_WEBHOOK_SECRET and no signature is verified before the payload is
\* trusted, so the answer does not depend on it.
handle_webhook(prows, brows, remote_id, outcome, authentic) ==
    LET w == apply_webhook(prows, brows, remote_id, outcome)
    IN  [ack |-> TRUE, payments |-> w.payments, bookings |-> w.bookings]

\* Offset of the payment deadline before the start of the interval.
PAYMENT_DEADLINE_OFFSET == 1

deadline_passed(b) == now >= b.start_at - PAYMENT_DEADLINE_OFFSET

\* expire() that does not look at the booking's payments.
expire_no_recheck(prows, booking_id, b) ==
    IF b.status = PENDING /\ deadline_passed(b)
    THEN [b EXCEPT !.status = EXPIRED]
    ELSE b

\* expire() that passes over every booking that has a payment of any status.
expire_skips_any_payment(prows, booking_id, b) ==
    IF /\ b.status = PENDING
       /\ deadline_passed(b)
       /\ PaymentsOf(prows, booking_id) = {}
    THEN [b EXCEPT !.status = EXPIRED]
    ELSE b

\* expire(booking): PENDING -> EXPIRED unless a SUCCEEDED payment exists,
\* checked in the same atomic unit.
expire(prows, booking_id, b) ==
    IF /\ b.status = PENDING
       /\ deadline_passed(b)
       /\ \A i \in PaymentsOf(prows, booking_id) : prows[i].status # P_SUCCEEDED
    THEN [b EXCEPT !.status = EXPIRED]
    ELSE b

\* advance_by_clock() that also starts a booking that is still PENDING.
advance_by_clock_from_pending(b) ==
    IF b.status \in {PENDING, CONFIRMED} /\ now >= b.start_at
    THEN [b EXCEPT !.status = ACTIVE]
    ELSE IF b.status = ACTIVE /\ now >= b.end_at THEN [b EXCEPT !.status = COMPLETED]
    ELSE b

\* advance_by_clock(booking)
advance_by_clock(b) ==
    IF b.status = CONFIRMED /\ now >= b.start_at THEN [b EXCEPT !.status = ACTIVE]
    ELSE IF b.status = ACTIVE /\ now >= b.end_at THEN [b EXCEPT !.status = COMPLETED]
    ELSE b

----------------------------------------------------------------------------
(* The operations, each request handler as one atomic step *)

\* POST /api/parking/bookings/: is_valid() then save().
CreateBooking(spot, start_at, end_at, booking_type) ==
    /\ Len(bookings) < MaxBookings
    /\ BookingSerializer_validate(bookings, 0, spot, start_at, end_at) = "ok"
    /\ bookings' = Append(bookings,
                     BookingSerializer_create(spot, start_at, end_at, booking_type))
    /\ UNCHANGED <<now, payments, nextRemote, inflight>>

\* PUT /api/parking/bookings/<id>/: is_valid() then save().
EditBooking(id, spot, start_at, end_at, booking_type) ==
    LET r == BookingSerializer_update(bookings[id], spot, start_at, end_at,
                                      booking_type)
    IN  /\ BookingSerializer_validate(bookings, id, spot, start_at, end_at) = "ok"
        /\ r.error = "ok"
        /\ bookings' = [bookings EXCEPT ![id] = r.row]
        /\ UNCHANGED <<now, payments, nextRemote, inflight>>

\* DELETE /api/parking/bookings/<id>/
CancelBooking(id) ==
    LET r == BookingViewSet_destroy(bookings[id])
    IN  /\ r.error = "ok"
        /\ bookings' = [bookings EXCEPT ![id] = r.row]
        /\ UNCHANGED <<now, payments, nextRemote, inflight>>

\* POST /api/payments/: is_valid() then save(); the gateway answers with a
\* fresh payment id or fails.
InitiatePayment(id, gateway_ok) ==
    LET r == PaymentSerializer_create(payments, id, bookings[id], gateway_ok,
                                      nextRemote)
    IN  /\ nextRemote <= MaxRemote
        /\ PaymentSerializer_validate(bookings[id]) = "ok"
        /\ payments' = r.rows
        /\ nextRemote' = IF r.error = "ok" THEN nextRemote + 1 ELSE nextRemote
        /\ UNCHANGED <<now, bookings, inflight>>

\* Delivery of a webhook event by the provider (at least once, in any order).
ApplyWebhook(remote_id, outcome) ==
    LET r == apply_webhook(payments, bookings, remote_id, outcome)
    IN  /\ payments' = r.payments
        /\ bookings' = r.bookings
        /\ UNCHANGED <<now, nextRemote, inflight>>

\* One candidate of the sweeper's expire_unpaid_bookings batch.
ExpireBooking(id) ==
    /\ bookings' = [bookings EXCEPT ![id] = expire(payments, id, bookings[id])]
    /\ UNCHANGED <<now, payments, nextRemote, inflight>>

\* One booking of the sweeper's clock pass.
AdvanceByClock(id) ==
    /\ bookings' = [bookings EXCEPT ![id] = advance_by_clock(bookings[id])]
    /\ UNCHANGED <<now, payments, nextRemote, inflight>>

\* The clock.
Tick ==
    /\ now < MaxTime
    /\ now' = now + 1
    /\ UNCHANGED <<bookings, payments, nextRemote, inflight>>

\* The remote ids a webhook may carry: every id the gateway has issued, and
\* one it has not.
RemoteIds == 0..(nextRemote - 1)

----------------------------------------------------------------------------

Init ==
    /\ now = 0
    /\ bookings = <<>>
    /\ payments = <<>>
    /\ nextRemote = 1
    /\ inflight = {}

\* Every handler is one atomic step. The payment machine does not read the
\* booking kind, so the requests of this specification are HOURLY; the other
\* kinds and long intervals are exercised by PriceSpec.
Next ==
    \/ \E spot \in Spots, start_at \in Times, end_at \in Times :
           CreateBooking(spot, start_at, end_at, HOURLY)
    \/ \E id \in BookingIds, spot \in Spots, start_at \in Times, end_at \in Times :
           EditBooking(id, spot, start_at, end_at, HOURLY)
    \/ \E id \in BookingIds : CancelBooking(id)
    \/ \E id \in BookingIds, gateway_ok \in BOOLEAN : InitiatePayment(id, gateway_ok)
    \/ \E remote_id \in RemoteIds, outcome \in WebhookOutcomes :
           ApplyWebhook(remote_id, outcome)
    \/ \E id \in BookingIds : ExpireBooking(id)
    \/ \E id \in BookingIds : AdvanceByClock(id)
    \/ Tick

Spec == Init /\ [][Next]_vars

----------------------------------------------------------------------------
(* Pricing: one booking, every kind, intervals of hours, days and months *)

\* End instants around the unit boundaries of each kind: half an hour, 1h,
\* 2h, 2h30m, a day, a day and a half hour, a month, a month and a half hour.
PriceEnds ==
    {1, UnitsPerHour, 2 * UnitsPerHour, 2 * UnitsPerHour + 1,
     UnitsPerDay, UnitsPerDay + 1, UnitsPerMonth, UnitsPerMonth + 1}

PriceNext ==
    \/ \E spot \in Spots, start_at \in Times, end_at \in PriceEnds,
          bt \in BookingTypes :
           /\ Len(bookings) < 1
           /\ CreateBooking(spot, start_at, end_at, bt)
    \/ \E id \in BookingIds, spot \in Spots, start_at \in Times,
          end_at \in PriceEnds, bt \in BookingTypes :
           EditBooking(id, spot, start_at, end_at, bt)
    \/ \E id \in BookingIds : CancelBooking(id)
    \/ Tick

PriceSpec == Init /\ [][PriceNext]_vars

----------------------------------------------------------------------------
(* Concurrent requests: is_valid() and save() of a booking request are two  *)
(* steps with no transaction or lock around them, so the steps of           *)
(* different requests interleave. A request between its two steps is held   *)
(* in `inflight` with the instance it loaded (none for a create). Rows and  *)
(* creates in flight together number at most MaxBookings; an edit may be in *)
(* flight next to them.                                                     *)

\* POST: serializer.is_valid()
BeginCreate(spot, start_at, end_at, booking_type) ==
    /\ Len(bookings) + Cardinality(inflight) < MaxBookings
    /\ BookingSerializer_validate(bookings, 0, spot, start_at, end_at) = "ok"
    /\ inflight' = inflight \cup
                     {[id |-> 0, instance |-> <<>>, spot |-> spot,
                       start_at |-> start_at, end_at |-> end_at,
                       booking_type |-> booking_type]}
    /\ UNCHANGED <<now, bookings, payments, nextRemote>>

\* POST: serializer.save()
FinishCreate(req) ==
    /\ req.id = 0
    /\ bookings' = Append(bookings,
                     BookingSerializer_create(req.spot, req.start_at, req.end_at,
                                              req.booking_type))
    /\ inflight' = inflight \ {req}
    /\ UNCHANGED <<now, payments, nextRemote>>

\* PUT: get_object() and serializer.is_valid()
BeginUpdate(id, spot, start_at, end_at, booking_type) ==
    /\ Len(bookings) + Cardinality(inflight) < MaxBookings + 1
    /\ BookingSerializer_validate(bookings, id, spot, start_at, end_at) = "ok"
    /\ inflight' = inflight \cup
                     {[id |-> id, instance |-> <<bookings[id]>>, spot |-> spot,
                       start_at |-> start_at, end_at |-> end_at,
                       booking_type |-> booking_type]}
    /\ UNCHANGED <<now, bookings, payments, nextRemote>>

\* PUT: serializer.save(), which writes the instance loaded by get_object()
FinishUpdate(req) ==
    LET r == BookingSerializer_update(req.instance[1], req.spot, req.start_at,
                                      req.end_at, req.booking_type)
    IN  /\ req.id # 0
        /\ bookings' = IF r.error = "ok"
                       THEN [bookings EXCEPT ![req.id] = r.row]
                       ELSE bookings
        /\ inflight' = inflight \ {req}
        /\ UNCHANGED <<now, payments, nextRemote>>

ConcNext ==
    \/ \E spot \in Spots, start_at \in Times, end_at \in Times :
           BeginCreate(spot, start_at, end_at, HOURLY)
    \/ \E req \in inflight : FinishCreate(req)
    \/ \E id \in BookingIds, spot \in Spots, start_at \in Times, end_at \in Times :
           BeginUpdate(id, spot, start_at, end_at, HOURLY)
    \/ \E req \in inflight : FinishUpdate(req)
    \/ \E id \in BookingIds : CancelBooking(id)
    \/ \E id \in BookingIds : ExpireBooking(id)
    \/ Tick

SpecConc == Init /\ [][ConcNext]_vars

----------------------------------------------------------------------------
(* The sweeper against the success path. Payment.mark_succeeded writes the  *)
(* payment row and then the booking row, two saves; the sweeper's expire    *)
(* step may run between them. A mark_paid that is still to come is held in  *)
(* `inflight`. One booking.                                                 *)

\* The webhook handler up to and including Payment._update_status.
WebhookWritePayment(remote_id, outcome) ==
    LET r == apply_webhook(payments, bookings, remote_id, outcome)
        pid == CHOOSE i \in PaymentsByRemote(payments, remote_id) : TRUE
    IN  /\ payments' = r.payments
        /\ inflight' = IF r.payments # payments /\ outcome = P_SUCCEEDED
                       THEN inflight \cup {[booking |-> payments[pid].booking,
                                            payment |-> pid]}
                       ELSE inflight
        /\ UNCHANGED <<now, bookings, nextRemote>>

\* The rest of Payment.mark_succeeded: booking.mark_paid(...).
WebhookMarkPaid(req) ==
    /\ bookings' = [bookings EXCEPT ![req.booking] =
                      Payment_mark_succeeded(payments[req.payment],
                                             bookings[req.booking]).booking]
    /\ inflight' = inflight \ {req}
    /\ UNCHANGED <<now, payments, nextRemote>>

RaceNext ==
    \/ \E spot \in Spots, start_at \in Times, end_at \in Times :
           /\ Len(bookings) < 1
           /\ CreateBooking(spot, start_at, end_at, HOURLY)
    \/ \E id \in BookingIds : CancelBooking(id)
    \/ \E id \in BookingIds, gateway_ok \in BOOLEAN : InitiatePayment(id, gateway_ok)
    \/ \E remote_id \in RemoteIds, outcome \in WebhookOutcomes :
           WebhookWritePayment(remote_id, outcome)
    \/ \E req \in inflight : WebhookMarkPaid(req)
    \/ \E id \in BookingIds : ExpireBooking(id)
    \/ \E id \in BookingIds : AdvanceByClock(id)
    \/ Tick

SpecRace == Init /\ [][RaceNext]_vars

\* booking.mark_paid(...) raises, or the worker stops, after
\* Payment._update_status has saved the payment: mark_succeeded opens no
\* transaction, so the saved payment row stays and the booking is not written.
WebhookMarkPaidFails(req) ==
    /\ inflight' = inflight \ {req}
    /\ UNCHANGED <<now, bookings, payments, nextRemote>>

FailNext ==
    \/ RaceNext
    \/ \E req \in inflight : WebhookMarkPaidFails(req)

SpecFail == Init /\ [][FailNext]_vars

----------------------------------------------------------------------------
(* Concurrent payment requests. PaymentSerializer.create reads              *)
(* booking.payment, calls the gateway and then saves the payment instance   *)
(* it holds; nothing locks the row meanwhile, so other initiate calls and   *)
(* webhooks run between the read and the save. A request that has its       *)
(* gateway answer and has not saved yet is held in `inflight` with the      *)
(* instance it holds (pid = 0: a new, unsaved Payment). One booking.        *)

\* create() that never reads booking.payment and always builds a new Payment.
InitiateLoad_always_new(id, gateway_ok) ==
    /\ nextRemote <= MaxRemote
    /\ PaymentSerializer_validate(bookings[id]) = "ok"
    /\ inflight' = IF gateway_ok
                   THEN inflight \cup
                          {[booking |-> id, pid |-> 0,
                            instance |-> [booking |-> id,
                                          amount |-> bookings[id].total_price,
                                          status |-> P_CREATED, success |-> FALSE,
                                          failure |-> FALSE,
                                          provider_payment_id |-> 0],
                            remote_id |-> nextRemote]}
                   ELSE inflight
    /\ nextRemote' = IF gateway_ok THEN nextRemote + 1 ELSE nextRemote
    /\ UNCHANGED <<now, bookings, payments>>

\* POST /api/payments/ up to the gateway's answer: validate(), the read of
\* booking.payment, create_yookassa_payment.
InitiateLoad(id, gateway_ok) ==
    LET existing == PaymentsOf(payments, id)
        pid == IF existing = {} THEN 0 ELSE CHOOSE i \in existing : TRUE
        instance == IF pid = 0
                    THEN [booking |-> id, amount |-> bookings[id].total_price,
                          status |-> P_CREATED, success |-> FALSE,
                          failure |-> FALSE, provider_payment_id |-> 0]
                    ELSE payments[pid]
        accepted == gateway_ok /\ instance.status # P_SUCCEEDED
    IN  /\ nextRemote <= MaxRemote
        /\ PaymentSerializer_validate(bookings[id]) = "ok"
        /\ inflight' = IF accepted
                       THEN inflight \cup {[booking |-> id, pid |-> pid,
                                            instance |-> instance,
                                            remote_id |-> nextRemote]}
                       ELSE inflight
        /\ nextRemote' = IF accepted THEN nextRemote + 1 ELSE nextRemote
        /\ UNCHANGED <<now, bookings, payments>>

\* POST /api/payments/, the rest: the provider fields are set on the instance
\* and payment.save() writes it.
InitiateSave(req) ==
    LET row == [req.instance EXCEPT !.provider_payment_id = req.remote_id,
                                    !.status = P_PENDING,
                                    !.success = FALSE, !.failure = FALSE]
    IN  /\ payments' = Payment_save(payments, req.pid, row).rows
        /\ inflight' = inflight \ {req}
        /\ UNCHANGED <<now, bookings, nextRemote>>

PayNext ==
    \/ \E spot \in Spots, start_at \in Times, end_at \in Times :
           /\ Len(bookings) < 1
           /\ CreateBooking(spot, start_at, end_at, HOURLY)
    \/ \E id \in BookingIds, gateway_ok \in BOOLEAN : InitiateLoad(id, gateway_ok)
    \/ \E req \in inflight : InitiateSave(req)
    \/ \E remote_id \in RemoteIds, outcome \in WebhookOutcomes :
           ApplyWebhook(remote_id, outcome)
    \/ \E id \in BookingIds : CancelBooking(id)
    \/ \E id \in BookingIds : ExpireBooking(id)
    \/ Tick

SpecPay == Init /\ [][PayNext]_vars

----------------------------------------------------------------------------
(* One booking through its whole life: every handler as one atomic step,    *)
(* requests of every booking kind.                                          *)

OneNext ==
    \/ \E spot \in Spots, start_at \in Times, end_at \in Times,
          bt \in BookingTypes :
           /\ Len(bookings) < 1
           /\ CreateBooking(spot, start_at, end_at, bt)
    \/ \E id \in BookingIds, spot \in Spots, start_at \in Times,
          end_at \in Times, bt \in BookingTypes :
           EditBooking(id, spot, start_at, end_at, bt)
    \/ \E id \in BookingIds : CancelBooking(id)
    \/ \E id \in BookingIds, gateway_ok \in BOOLEAN : InitiatePayment(id, gateway_ok)
    \/ \E remote_id \in RemoteIds, outcome \in WebhookOutcomes :
           ApplyWebhook(remote_id, outcome)
    \/ \E id \in BookingIds : ExpireBooking(id)
    \/ \E id \in BookingIds : AdvanceByClock(id)
    \/ Tick

SpecOne == Init /\ [][OneNext]_vars

----------------------------------------------------------------------------
(* The expiration sweep under its schedule. The beat runs                   *)
(* expire_unpaid_bookings again and again; the processing of one candidate  *)
(* may fail on a run, which writes nothing, stops no other candidate and is *)
(* tried again on the next run. A candidate is not failed for ever. The     *)
(* requests are for spot A.                                                 *)

\* The processing of one candidate fails on this run.
ExpireBookingFails(id) ==
    /\ bookings[id].status = PENDING
    /\ deadline_passed(bookings[id])
    /\ UNCHANGED vars

\* Instants of the requests of this specification: one beyond the clock, so
\* that a booking may be asked for whose payment deadline is still ahead.
LiveTimes == 0..(MaxTime + 1)

LiveNext ==
    \/ \E start_at \in LiveTimes, end_at \in LiveTimes :
           CreateBooking("A", start_at, end_at, HOURLY)
    \/ \E id \in BookingIds, start_at \in LiveTimes, end_at \in LiveTimes :
           EditBooking(id, "A", start_at, end_at, HOURLY)
    \/ \E id \in BookingIds : CancelBooking(id)
    \/ \E id \in BookingIds, gateway_ok \in BOOLEAN : InitiatePayment(id, gateway_ok)
    \/ \E remote_id \in RemoteIds, outcome \in WebhookOutcomes :
           ApplyWebhook(remote_id, outcome)
    \/ \E id \in BookingIds : ExpireBooking(id)
    \/ \E id \in BookingIds : ExpireBookingFails(id)
    \/ Tick

\* Every booking is a candidate of run after run, and its processing does
\* not fail on all of them.
SpecLive ==
    /\ Init
    /\ [][LiveNext]_vars
    /\ \A id \in 1..MaxBookings : WF_vars(id \in BookingIds /\ ExpireBooking(id))

----------------------------------------------------------------------------
(* The webhook endpoint open to any sender: one booking, and requests to    *)
(* the endpoint with and without the provider's signature.                  *)

\* POST to the webhook endpoint.
ReceiveWebhook(remote_id, outcome, authentic) ==
    LET h == handle_webhook(payments, bookings, remote_id, outcome, authentic)
    IN  /\ payments' = h.payments
        /\ bookings' = h.bookings
        /\ UNCHANGED <<now, nextRemote, inflight>>

HookNext ==
    \/ \E spot \in Spots, start_at \in Times, end_at \in Times :
           /\ Len(bookings) < 1
           /\ CreateBooking(spot, start_at, end_at, HOURLY)
    \/ \E id \in BookingIds : CancelBooking(id)
    \/ \E id \in BookingIds, gateway_ok \in BOOLEAN : InitiatePayment(id, gateway_ok)
    \/ \E remote_id \in RemoteIds, outcome \in WebhookOutcomes,
          authentic \in BOOLEAN :
           ReceiveWebhook(remote_id, outcome, authentic)
    \/ \E id \in BookingIds : ExpireBooking(id)
    \/ \E id \in BookingIds : AdvanceByClock(id)
    \/ Tick

SpecHook == Init /\ [][HookNext]_vars

----------------------------------------------------------------------------
(* Properties *)

\* The overlap test of two half-open intervals.
Overlap(s1, e1, s2, e2) == s1 < e2 /\ s2 < e1

\* Some booking other than `excluding` blocks [start_at, end_at) on the spot.
Blocked(spot, start_at, end_at, excluding) ==
    \E i \in BookingIds :
        /\ i # excluding
        /\ bookings[i].spot = spot
        /\ bookings[i].status \in {PENDING, CONFIRMED, ACTIVE}
        /\ Overlap(bookings[i].start_at, bookings[i].end_at, start_at, end_at)

\* C1: in every reachable state no two distinct bookings of one spot whose
\* status is PENDING, CONFIRMED or ACTIVE have overlapping intervals, under
\* any interleaving of the requests.
C1_NoDoubleBooking ==
    \A i \in BookingIds, j \in BookingIds :
        ( /\ i # j
          /\ bookings[i].spot = bookings[j].spot
          /\ bookings[i].status \in {PENDING, CONFIRMED, ACTIVE}
          /\ bookings[j].status \in {PENDING, CONFIRMED, ACTIVE} )
        => ~Overlap(bookings[i].start_at, bookings[i].end_at,
                    bookings[j].start_at, bookings[j].end_at)

\* C2: of two concurrent create requests for one spot and overlapping
\* intervals only one inserts: a create request never inserts its booking
\* when a blocking booking overlaps its interval at the time of the insert.
C2_ExactlyOneInserts ==
    [][\A req \in inflight :
          (req.id = 0 /\ FinishCreate(req))
          => ~Blocked(req.spot, req.start_at, req.end_at, 0)]_vars

\* C3: the availability check of a request (on an active spot, for an
\* interval start < end that is not in the past) fails if and only if some
\* booking of the same spot other than the excluded one has a status in
\* {PENDING, CONFIRMED, ACTIVE} and overlaps [start, end) under the half-open
\* test.
C3_AvailableIff ==
    \A spot \in Spots \ {"X"}, start_at \in Times, end_at \in Times,
       excluding \in 0..Len(bookings) :
        (start_at < end_at /\ start_at >= now)
        => ( (BookingSerializer_validate(bookings, excluding, spot, start_at,
                                         end_at) = "conflict")
             <=> Blocked(spot, start_at, end_at, excluding) )

\* C3 witness: a spot holds a booking in a terminal status and a blocking
\* booking next to it; the terminal booking's interval is free, the blocking
\* booking's interval is not, unless that booking itself is excluded.
C3_Witness ==
    \E i \in BookingIds, j \in BookingIds :
        /\ bookings[i].spot = bookings[j].spot
        /\ bookings[i].status \in {COMPLETED, CANCELLED, EXPIRED}
        /\ bookings[j].status \in {PENDING, CONFIRMED, ACTIVE}
        /\ bookings[i].end_at = bookings[j].start_at
        /\ bookings[i].start_at >= now
        /\ Booking_is_spot_available(bookings, bookings[i].spot,
               bookings[i].start_at, bookings[i].end_at, 0)
        /\ ~Booking_is_spot_available(bookings, bookings[j].spot,
               bookings[j].start_at, bookings[j].end_at, 0)
        /\ Booking_is_spot_available(bookings, bookings[j].spot,
               bookings[j].start_at, bookings[j].end_at, j)

\* The requests create_booking must refuse.
CreateRefused(spot, start_at, end_at) ==
    \/ start_at >= end_at
    \/ start_at < now
    \/ spot = "X"
    \/ Blocked(spot, start_at, end_at, 0)

\* C4, rejection: a create request is refused exactly when start >= end, the
\* start is in the past, the spot is inactive or the interval is unavailable.
C4_Refusal ==
    \A spot \in Spots, start_at \in Times, end_at \in Times :
        (BookingSerializer_validate(bookings, 0, spot, start_at, end_at) # "ok")
        <=> CreateRefused(spot, start_at, end_at)

\* C4, effect: a refused request inserts nothing; any other inserts exactly
\* one booking, PENDING and unpaid, with the pricing engine's price, and
\* changes no existing booking.
C4_Effect ==
    \A spot \in Spots, start_at \in Times, end_at \in Times :
        CreateBooking(spot, start_at, end_at, HOURLY)
        => /\ ~CreateRefused(spot, start_at, end_at)
           /\ Len(bookings') = Len(bookings) + 1
           /\ SubSeq(bookings', 1, Len(bookings)) = bookings
           /\ bookings'[Len(bookings')].status = PENDING
           /\ bookings'[Len(bookings')].is_paid = FALSE
           /\ bookings'[Len(bookings')].spot = spot
           /\ bookings'[Len(bookings')].start_at = start_at
           /\ bookings'[Len(bookings')].end_at = end_at
           /\ bookings'[Len(bookings')].total_price =
                  Booking_calculate_price(spot, start_at, end_at, HOURLY)
           /\ payments' = payments

\* C4: create_booking fails, inserting and changing nothing, when start >= end,
\* the start is in the past, the spot is inactive or the interval is
\* unavailable; otherwise it inserts exactly one PENDING, unpaid booking
\* priced by the pricing engine.
C4_CreateBooking == []C4_Refusal /\ [][C4_Effect]_vars

\* C4 witness: a second booking has been inserted next to a first one, and a
\* further request for the first one's interval would be refused.
C4_Witness ==
    /\ Len(bookings) = 2
    /\ bookings[2].status = PENDING
    /\ bookings[1].status = PENDING
    /\ CreateRefused(bookings[1].spot, bookings[1].start_at, bookings[1].end_at)
    /\ bookings[1].start_at >= now

\* Number of whole units charged for a duration: the least n with
\* n * unit >= duration.
UnitsCharged(duration, unit) ==
    CHOOSE n \in 0..duration : n * unit >= duration /\ (n - 1) * unit < duration

PaymentOfRemote(remote_id) ==
    IF \E i \in PaymentIds : payments[i].provider_payment_id = remote_id
    THEN CHOOSE i \in PaymentIds : payments[i].provider_payment_id = remote_id
    ELSE 0

\* C6, replay: applying a SUCCEEDED event adds no Payment row; applied to the
\* PENDING payment of a PENDING booking it marks the payment SUCCEEDED and
\* confirms the booking with one notification; applied to a payment that is
\* already SUCCEEDED it changes nothing.
C6_ReplayStep ==
    \A remote_id \in RemoteIds :
        LET pid == PaymentOfRemote(remote_id)
            bid == payments[pid].booking
        IN  (pid # 0 /\ ApplyWebhook(remote_id, P_SUCCEEDED))
            => /\ Len(payments') = Len(payments)
               /\ Len(bookings') = Len(bookings)
               /\ (payments[pid].status = P_PENDING /\ bookings[bid].status = PENDING)
                  => /\ payments'[pid].status = P_SUCCEEDED
                     /\ bookings'[bid].status = CONFIRMED
                     /\ bookings'[bid].is_paid
                     /\ bookings'[bid].notifications = bookings[bid].notifications + 1
               /\ payments[pid].status = P_SUCCEEDED
                  => (payments' = payments /\ bookings' = bookings)

\* C6, once: no booking is confirmed (and notified) more than once.
C6_Once == \A i \in BookingIds : bookings[i].notifications <= 1

\* C6: replaying the same SUCCEEDED webhook any number of times leaves the
\* state of one application: the booking goes PENDING -> CONFIRMED once, the
\* confirm_paid side effects happen once, no Payment row is added and the
\* later applications change nothing.
C6_Replay == []C6_Once /\ [][C6_ReplayStep]_vars

\* C6 witness: a SUCCEEDED payment of a confirmed, paid and once-notified
\* booking, for which the provider may deliver the event again.
C6_Witness ==
    \E p \in PaymentIds :
        /\ payments[p].status = P_SUCCEEDED
        /\ payments[p].provider_payment_id \in RemoteIds
        /\ bookings[payments[p].booking].status = CONFIRMED
        /\ bookings[payments[p].booking].is_paid
        /\ bookings[payments[p].booking].notifications = 1

\* A SUCCEEDED payment exists for the booking.
HasSucceededPayment(id) ==
    \E p \in PaymentIds :
        payments[p].booking = id /\ payments[p].status = P_SUCCEEDED

C7_ExpireStep ==
    \A id \in BookingIds :
        (bookings[id].status # EXPIRED /\ bookings'[id].status = EXPIRED)
        => ~HasSucceededPayment(id)

\* C7, confirm: the mark_paid that follows the payment write confirms a
\* booking that is still PENDING.
C7_MarkPaidStep ==
    \A req \in inflight :
        (WebhookMarkPaid(req) /\ bookings[req.booking].status = PENDING)
        => (bookings'[req.booking].status = CONFIRMED /\ bookings'[req.booking].is_paid)

\* C7, pending: a PENDING booking with a SUCCEEDED payment has its mark_paid
\* still to come.
C7_PendingIsInFlight ==
    \A id \in BookingIds :
        (HasSucceededPayment(id) /\ bookings[id].status = PENDING)
        => \E req \in inflight : req.booking = id

C9_ReuseStep ==
    \A id \in BookingIds :
        LET existing == {p \in PaymentIds : payments[p].booking = id}
        IN  (existing # {} /\ InitiatePayment(id, TRUE))
            => /\ Len(payments') = Len(payments)
               /\ \A p \in existing :
                     /\ payments[p].status \in
                            {P_CREATED, P_PENDING, P_FAILED, P_CANCELLED}
                     /\ payments'[p].status = P_PENDING
                     /\ ~payments'[p].success
                     /\ ~payments'[p].failure
                     /\ payments'[p].provider_payment_id = nextRemote
                     /\ payments'[p].booking = id
                     /\ payments'[p].amount = payments[p].amount
               /\ \A p \in PaymentIds \ existing : payments'[p] = payments[p]

\* C9, one row: no booking ever has two Payment rows.
C9_OneRow ==
    \A p \in PaymentIds, q \in PaymentIds :
        payments[p].booking = payments[q].booking => p = q

C11_OneNonTerminal ==
    \A i \in BookingIds :
        Cardinality({p \in PaymentIds :
                       payments[p].booking = i
                       /\ payments[p].status \in {P_CREATED, P_PENDING}}) <= 1

\* C11 witness: two initiate calls ran side by side for a booking that had no
\* payment; the first has saved its PENDING payment, the second still holds
\* its own new Payment and is about to save it.
C11_Witness ==
    \E req \in inflight, p \in PaymentIds :
        /\ req.pid = 0
        /\ payments[p].booking = req.booking
        /\ payments[p].status = P_PENDING
        /\ payments[p].provider_payment_id # req.remote_id

\* C12: the success transition is all-or-nothing: once the application of a
\* SUCCEEDED webhook to the PENDING payment of a PENDING booking has ended,
\* with its confirm step done or failed, the payment is not SUCCEEDED while
\* the booking is still PENDING and unpaid.
C12_AllOrNothing ==
    \A p \in PaymentIds :
        ( /\ payments[p].status = P_SUCCEEDED
          /\ \A req \in inflight : req.payment # p )
        => ~( bookings[payments[p].booking].status = PENDING
              /\ ~bookings[payments[p].booking].is_paid )

\* C13: once a booking's status is COMPLETED, CANCELLED or EXPIRED no
\* operation changes its status again, and no booking is ever deleted.
C13_TerminalBookingStays ==
    [][/\ Len(bookings') >= Len(bookings)
       /\ \A i \in BookingIds :
             bookings[i].status \in {COMPLETED, CANCELLED, EXPIRED}
             => bookings'[i].status = bookings[i].status]_vars

\* C14, refusal: cancel at now >= start is refused and writes nothing; cancel
\* at now < start is accepted.
C14_Refusal ==
    \A id \in BookingIds :
        LET r == BookingViewSet_destroy(bookings[id])
        IN  /\ (now >= bookings[id].start_at)
               => (r.error = "already_started" /\ r.row = bookings[id])
            /\ (now < bookings[id].start_at) => r.error = "ok"

\* C14, effect: an accepted cancel happens at now < start, sets the status to
\* CANCELLED and changes nothing else, and afterwards the booking's spot and
\* interval are exactly as available as they were with the booking ignored.
C14_Effect ==
    \A id \in BookingIds :
        CancelBooking(id)
        => /\ now < bookings[id].start_at
           /\ bookings' = [bookings EXCEPT ![id].status = CANCELLED]
           /\ payments' = payments
           /\ Booking_is_spot_available(bookings', bookings[id].spot,
                  bookings[id].start_at, bookings[id].end_at, 0)
              <=> Booking_is_spot_available(bookings, bookings[id].spot,
                      bookings[id].start_at, bookings[id].end_at, id)

\* C14: cancel at now >= start fails and leaves the booking unchanged; cancel
\* at now < start sets the status to CANCELLED, after which the booking no
\* longer blocks a new booking of the same spot for the same interval.
C14_Cancel == []C14_Refusal /\ [][C14_Effect]_vars

\* C14 witness: a cancelled booking and, booked after it, a blocking booking
\* of the same spot for the same interval, now started, whose cancel is
\* refused.
C14_Witness ==
    \E i \in BookingIds, j \in BookingIds :
        /\ i < j
        /\ bookings[i].status = CANCELLED
        /\ bookings[j].status \in {PENDING, CONFIRMED, ACTIVE}
        /\ bookings[i].spot = bookings[j].spot
        /\ bookings[i].start_at = bookings[j].start_at
        /\ bookings[i].end_at = bookings[j].end_at
        /\ now >= bookings[j].start_at
        /\ BookingViewSet_destroy(bookings[j]).error = "already_started"

\* C15, refusal: update() raises for every request on a booking that is not
\* PENDING and hands nothing to save.
C15_Refusal ==
    \A id \in BookingIds, spot \in Spots, start_at \in Times, end_at \in Times :
        bookings[id].status # PENDING
        => LET r == BookingSerializer_update(bookings[id], spot, start_at,
                                             end_at, HOURLY)
           IN  r.error = "not_pending" /\ r.row = bookings[id]

\* C15, effect: an edit request writes a booking only if the booking is
\* PENDING.
C15_Effect ==
    \A id \in BookingIds, spot \in Spots, start_at \in Times, end_at \in Times :
        EditBooking(id, spot, start_at, end_at, HOURLY)
        => bookings[id].status = PENDING

\* C15: edit on a booking whose status is not PENDING fails with an error and
\* leaves the stored booking (spot, interval, kind, total price, status)
\* unchanged.
C15_EditNonPending == []C15_Refusal /\ [][C15_Effect]_vars

\* C15 witness: a CONFIRMED booking and an edit request for it that passes
\* validate(), so that only the status test of update() refuses it.
C15_Witness ==
    \E id \in BookingIds, spot \in Spots, start_at \in Times, end_at \in Times :
        /\ bookings[id].status = CONFIRMED
        /\ BookingSerializer_validate(bookings, id, spot, start_at, end_at) = "ok"
        /\ <<spot, start_at, end_at>> #
               <<bookings[id].spot, bookings[id].start_at, bookings[id].end_at>>
        /\ BookingSerializer_update(bookings[id], spot, start_at, end_at,
                                    HOURLY).error = "not_pending"

\* C16, acceptance: an edit request for a PENDING booking with an active
\* spot and an interval start < end that is not in the past is accepted
\* exactly when no other PENDING, CONFIRMED or ACTIVE booking of the new spot
\* overlaps the new interval; the booking's own stored interval does not count.
C16_Acceptance ==
    \A id \in BookingIds, spot \in Spots \ {"X"}, start_at \in Times,
       end_at \in Times :
        (bookings[id].status = PENDING /\ start_at < end_at /\ start_at >= now)
        => ( ( /\ BookingSerializer_validate(bookings, id, spot, start_at,
                                             end_at) = "ok"
               /\ BookingSerializer_update(bookings[id], spot, start_at, end_at,
                                           HOURLY).error = "ok" )
             <=> ~Blocked(spot, start_at, end_at, id) )

\* C16, effect: an accepted edit stores the new spot and interval with the
\* pricing engine's price for them, keeps the booking PENDING and unpaid and
\* changes no other booking.
C16_Effect ==
    \A id \in BookingIds, spot \in Spots, start_at \in Times, end_at \in Times :
        EditBooking(id, spot, start_at, end_at, HOURLY)
        => /\ ~Blocked(spot, start_at, end_at, id)
           /\ bookings'[id].spot = spot
           /\ bookings'[id].start_at = start_at
           /\ bookings'[id].end_at = end_at
           /\ bookings'[id].total_price =
                  UnitsCharged(end_at - start_at, UnitsPerHour)
                    * spot_rate(spot, HOURLY)
           /\ bookings'[id].status = PENDING
           /\ bookings'[id].is_paid = bookings[id].is_paid
           /\ \A j \in BookingIds \ {id} : bookings'[j] = bookings[j]
           /\ Len(bookings') = Len(bookings)

\* C16: a successful edit of a PENDING booking has re-checked the
\* availability of the new spot and interval ignoring the booking itself (an
\* edit that overlaps only the booking's own old interval succeeds, one that
\* overlaps another PENDING/CONFIRMED/ACTIVE booking fails), and the total
\* price stored by the edit is the pricing engine's result for the new
\* fields.
C16_Edit == []C16_Acceptance /\ [][C16_Effect]_vars

\* C16 witness: a PENDING booking priced 150 next to another blocking booking
\* of its spot: an edit that keeps its own interval passes (a create for that
\* interval would conflict with it), moving it to the other spot prices it
\* 100, and stretching it over the neighbour's interval is refused.
C16_Witness ==
    \E id \in BookingIds, j \in BookingIds :
        /\ id # j
        /\ bookings[id].status = PENDING
        /\ bookings[j].status \in {PENDING, CONFIRMED, ACTIVE}
        /\ bookings[id].spot = "B" /\ bookings[j].spot = "B"
        /\ bookings[id].start_at >= now
        /\ bookings[id].total_price = 150
        /\ BookingSerializer_validate(bookings, 0, "B", bookings[id].start_at,
                                      bookings[id].end_at) = "conflict"
        /\ BookingSerializer_validate(bookings, id, "B", bookings[id].start_at,
                                      bookings[id].end_at) = "ok"
        /\ BookingSerializer_update(bookings[id], "A", bookings[id].start_at,
               bookings[id].end_at, HOURLY).row.total_price = 100
        /\ BookingSerializer_validate(bookings, id, "B", bookings[id].start_at,
                                      bookings[j].end_at) = "conflict"

\* The bookings for which initiate must be rejected.
InitiateRejected(id) ==
    \/ bookings[id].status # PENDING
    \/ bookings[id].is_paid
    \/ HasSucceededPayment(id)

\* C17, rejection: for a booking that is not PENDING, is paid or has a
\* SUCCEEDED payment, validate() or create() raises, whatever the gateway
\* would answer, and create() hands back the Payment table as it was.
C17_Rejection ==
    \A id \in BookingIds, gateway_ok \in BOOLEAN :
        InitiateRejected(id)
        => \/ PaymentSerializer_validate(bookings[id]) # "ok"
           \/ LET r == PaymentSerializer_create(payments, id, bookings[id],
                                                gateway_ok, nextRemote)
              IN  r.error = "already_succeeded" /\ r.rows = payments

\* C17, effect: an initiate call for such a booking obtains no remote id from
\* the gateway and leaves every Payment row as it is, and a remote id is only
\* ever issued for a booking that is PENDING, unpaid and without a SUCCEEDED
\* payment.
C17_Effect ==
    /\ \A id \in BookingIds, gateway_ok \in BOOLEAN :
          (InitiateRejected(id) /\ InitiatePayment(id, gateway_ok))
          => (payments' = payments /\ nextRemote' = nextRemote)
    /\ nextRemote' # nextRemote
       => \E id \in BookingIds :
             ~InitiateRejected(id) /\ InitiatePayment(id, TRUE)

\* C17: initiate is rejected when the booking's status is not PENDING, when
\* the booking is already paid, or when a SUCCEEDED payment already exists
\* for it; a rejected call makes no gateway call and creates or modifies no
\* Payment.
C17_InitiateRejected == []C17_Rejection /\ [][C17_Effect]_vars

\* C17 witness: a PENDING, unpaid booking that passes validate() and has a
\* SUCCEEDED payment (its confirm step failed), with a remote id left for the
\* gateway to issue: create() is what rejects the call.
C17_Witness ==
    \E id \in BookingIds :
        /\ HasSucceededPayment(id)
        /\ PaymentSerializer_validate(bookings[id]) = "ok"
        /\ nextRemote <= MaxRemote
        /\ inflight = {}
        /\ PaymentSerializer_create(payments, id, bookings[id], TRUE,
                                    nextRemote).error = "already_succeeded"

\* The initiate calls that reach the gateway: validate() passes and no
\* SUCCEEDED payment exists.
ReachesGateway(id) ==
    /\ PaymentSerializer_validate(bookings[id]) = "ok"
    /\ ~HasSucceededPayment(id)

C19_Step ==
    \A remote_id \in RemoteIds, outcome \in {P_FAILED, P_CANCELLED} :
        LET pid == PaymentOfRemote(remote_id)
        IN  (pid # 0 /\ payments[pid].status = P_PENDING
             /\ ApplyWebhook(remote_id, outcome))
            => /\ payments' = [payments EXCEPT ![pid] =
                                 [@ EXCEPT !.status = outcome,
                                           !.success = FALSE,
                                           !.failure = TRUE]]
               /\ bookings' = bookings

\* C19, retry: for a FAILED or CANCELLED payment whose booking still passes
\* validate(), a new initiate is accepted, and the SUCCEEDED event for the
\* remote id it obtains leaves the payment SUCCEEDED and the booking
\* CONFIRMED and paid.
C19_Retry ==
    \A p \in PaymentIds :
        LET id == payments[p].booking
            r == PaymentSerializer_create(payments, id, bookings[id], TRUE,
                                          nextRemote)
            w == apply_webhook(r.rows, bookings, nextRemote, P_SUCCEEDED)
        IN  ( /\ payments[p].status \in {P_FAILED, P_CANCELLED}
              /\ PaymentSerializer_validate(bookings[id]) = "ok" )
            => /\ r.error = "ok"
               /\ Len(r.rows) = Len(payments)
               /\ r.rows[p].status = P_PENDING
               /\ w.payments[p].status = P_SUCCEEDED
               /\ w.bookings[id].status = CONFIRMED
               /\ w.bookings[id].is_paid

C20_LoadStep ==
    \A id \in BookingIds, p \in PaymentIds :
        ( /\ payments[p].booking = id
          /\ payments[p].status \in {P_CREATED, P_PENDING}
          /\ InitiateLoad(id, TRUE) )
        => /\ payments' = payments
           /\ \A req \in inflight' \ inflight :
                 req.pid = p /\ req.instance = payments[p]

\* C20, save: the save of a reused payment updates its provider fields in
\* place: the number of Payment rows is unchanged, the row keeps its place,
\* its booking and its amount, and no other row changes.
C20_SaveStep ==
    \A req \in inflight :
        (req.pid # 0 /\ InitiateSave(req))
        => /\ Len(payments') = Len(payments)
           /\ payments'[req.pid].booking = payments[req.pid].booking
           /\ payments'[req.pid].amount = payments[req.pid].amount
           /\ payments'[req.pid].provider_payment_id = req.remote_id
           /\ payments'[req.pid].status = P_PENDING
           /\ \A q \in PaymentIds \ {req.pid} : payments'[q] = payments[q]

\* C20: initiate on a booking that already has a non-terminal (CREATED or
\* PENDING) payment reuses that payment entity, updating its provider fields,
\* and creates no new row: the number of Payment rows of the booking is
\* unchanged and the payment keeps its identity.
C20_ReuseKeepsIdentity == [][C20_LoadStep /\ C20_SaveStep]_vars

\* C20 witness: the PENDING payment of a booking, stored under remote id 1,
\* held by a second initiate call that has obtained remote id 2 and is about
\* to save it.
C20_Witness ==
    \E req \in inflight :
        /\ req.pid # 0
        /\ payments[req.pid].status = P_PENDING
        /\ payments[req.pid].provider_payment_id = 1
        /\ req.remote_id = 2
        /\ Len(payments) = 1

C22_AmountAtCreation ==
    [][/\ Len(payments') >= Len(payments)
       /\ \A p \in PaymentIds :
             /\ payments'[p].amount = payments[p].amount
             /\ payments'[p].booking = payments[p].booking
       /\ \A p \in (Len(payments) + 1)..Len(payments') :
             payments'[p].amount = bookings[payments'[p].booking].total_price]_vars

\* C22 witness: a payment that has been handed to the gateway a second time
\* (remote id 2) and whose booking has been edited since the payment was
\* created: its amount is not the booking's total price any more.
C22_Witness ==
    \E p \in PaymentIds :
        /\ payments[p].amount # bookings[payments[p].booking].total_price
        /\ payments[p].provider_payment_id = 2
        /\ payments[p].status = P_PENDING

\* C23, step: a booking becomes ACTIVE only from CONFIRMED and only when
\* now >= start, and COMPLETED only from ACTIVE and only when now >= end.
C23_Step ==
    \A i \in BookingIds :
        /\ (bookings'[i].status = ACTIVE /\ bookings[i].status # ACTIVE)
           => (bookings[i].status = CONFIRMED /\ now >= bookings[i].start_at)
        /\ (bookings'[i].status = COMPLETED /\ bookings[i].status # COMPLETED)
           => (bookings[i].status = ACTIVE /\ now >= bookings[i].end_at)

\* C23, paid: every ACTIVE or COMPLETED booking is paid and has a SUCCEEDED
\* payment.
C23_Paid ==
    \A i \in BookingIds :
        bookings[i].status \in {ACTIVE, COMPLETED}
        => (bookings[i].is_paid /\ HasSucceededPayment(i))

\* C23: a booking becomes ACTIVE only from CONFIRMED and only when
\* now >= start, and COMPLETED only from ACTIVE and only when now >= end; a
\* booking whose payment never succeeded never becomes ACTIVE or COMPLETED,
\* so every ACTIVE or COMPLETED booking has paid = true.
C23_ClockTransitions == []C23_Paid /\ [][C23_Step]_vars

\* C23 witness: a COMPLETED, paid booking after its end, next to which the
\* clock pass has nothing left to do.
C23_Witness ==
    \E i \in BookingIds :
        /\ bookings[i].status = COMPLETED
        /\ bookings[i].is_paid
        /\ now >= bookings[i].end_at
        /\ advance_by_clock(bookings[i]) = bookings[i]

\* The candidates of the sweep: PENDING, payment deadline passed, no
\* SUCCEEDED payment.
ExpireCandidate(i) ==
    /\ i \in BookingIds
    /\ bookings[i].status = PENDING
    /\ deadline_passed(bookings[i])
    /\ ~HasSucceededPayment(i)

\* C24 as stated: under fair sweeper runs, a PENDING booking whose payment
\* deadline has passed eventually becomes EXPIRED unless it gets a SUCCEEDED
\* payment, also when the processing of candidates fails on some runs.
C24_EventuallyExpired ==
    \A i \in 1..MaxBookings :
        ExpireCandidate(i)
        ~> (i \in BookingIds
            /\ (bookings[i].status = EXPIRED \/ HasSucceededPayment(i)))

\* C24 amended: under fair sweeper runs, a PENDING booking whose payment
\* deadline has passed eventually becomes EXPIRED unless it gets a SUCCEEDED
\* payment, is cancelled by its user, or is edited to an interval whose
\* payment deadline is still ahead, also when the processing of candidates
\* fails on some runs.
C24_ExpiredUnlessLeft ==
    \A i \in 1..MaxBookings :
        ExpireCandidate(i)
        ~> (i \in BookingIds
            /\ \/ bookings[i].status = EXPIRED
               \/ HasSucceededPayment(i)
               \/ bookings[i].status = CANCELLED
               \/ ~deadline_passed(bookings[i]))

\* C24 witness: two bookings in one batch, one EXPIRED by the sweep and one
\* still a candidate with a FAILED payment.
C24_Witness ==
    \E i \in BookingIds, j \in BookingIds :
        /\ bookings[i].status = EXPIRED
        /\ ExpireCandidate(j)
        /\ \E p \in PaymentIds :
              payments[p].booking = j /\ payments[p].status = P_FAILED

\* C25: a webhook request that fails the authenticity verification is never
\* applied: whichever stored payment it names and whatever outcome it
\* carries, it changes no Payment and no Booking and is not acknowledged to
\* the provider.
C25_UnauthenticNeverApplied ==
    \A p \in PaymentIds, outcome \in WebhookOutcomes :
        LET h == handle_webhook(payments, bookings,
                                payments[p].provider_payment_id, outcome, FALSE)
        IN  ~h.ack /\ h.payments = payments /\ h.bookings = bookings

\* C26: an authentic webhook event whose remote id matches no Payment is
\* acknowledged to the provider and leaves every Payment and every Booking
\* unchanged.
C26_UnknownRemoteId ==
    \A remote_id \in RemoteIds, outcome \in WebhookOutcomes :
        PaymentsByRemote(payments, remote_id) = {}
        => LET h == handle_webhook(payments, bookings, remote_id, outcome,
                                   TRUE)
           IN  h.ack /\ h.payments = payments /\ h.bookings = bookings

\* C26 witness: a PENDING payment of a PENDING booking, stored under remote
\* id 2, and remote id 1, which the gateway has issued and no Payment carries.
C26_Witness ==
    \E p \in PaymentIds :
        /\ payments[p].status = P_PENDING
        /\ bookings[payments[p].booking].status = PENDING
        /\ payments[p].provider_payment_id = 2
        /\ 1 \in RemoteIds
        /\ PaymentsByRemote(payments, 1) = {}

C29_CancelWritesStatusOnly ==
    [][\A id \in BookingIds :
          CancelBooking(id)
          => /\ bookings' = [bookings EXCEPT ![id].status = CANCELLED]
             /\ payments' = payments]_vars

\* C29 witness: a cancelled booking that kept its paid flag and its price,
\* with its SUCCEEDED payment of that amount still under remote id 1.
C29_Witness ==
    \E i \in BookingIds, p \in PaymentIds :
        /\ bookings[i].status = CANCELLED
        /\ bookings[i].is_paid
        /\ bookings[i].total_price > 0
        /\ payments[p].booking = i
        /\ payments[p].status = P_SUCCEEDED
        /\ payments[p].amount = bookings[i].total_price
        /\ payments[p].provider_payment_id = 1

\* C30: in every reachable state of a Payment, success is true exactly when
\* the status is SUCCEEDED, failure is true exactly when the status is FAILED
\* or CANCELLED, and success and failure are never both true.
C30_FlagsFollowStatus ==
    \A p \in PaymentIds :
        /\ payments[p].success <=> (payments[p].status = P_SUCCEEDED)
        /\ payments[p].failure <=> (payments[p].status \in {P_FAILED, P_CANCELLED})
        /\ ~(payments[p].success /\ payments[p].failure)

\* C30 witness: a payment that initiate has reused (remote id 2) and the
\* provider has then cancelled: failure is set and success is not.
C30_Witness ==
    \E p \in PaymentIds :
        /\ payments[p].provider_payment_id = 2
        /\ payments[p].status = P_CANCELLED
        /\ payments[p].failure
        /\ ~payments[p].success

====
